---- MODULE Spec2Model ----
(***************************************************************************)
(* Cycle / pause time accounting of the productivity API                   *)
(* (backend/main.py: registrar_ciclo, registrar_pausa).                    *)
(*                                                                         *)
(* Time is counted in ticks, TicksPerSec ticks to the second, so that the  *)
(* truncation int(total_seconds()) of a pause duration is visible.  A      *)
(* float number of seconds is kept as its number of ticks; an average is   *)
(* kept as the exact fraction suma / n.  A nullable column or an Optional  *)
(* value is <<>> (NULL / None) or <<v>>.  Columns hold what is written to  *)
(* them: duracion_s whole seconds, tiempo_ciclo_s the computed seconds.    *)
(***************************************************************************)
EXTENDS Integers, Sequences, FiniteSets, TLC

\* ------------------------------------------------------------------ bounds
\* ticks to the second: the resolution of the clock
TicksPerSec == 2
\* clock advances, cycle rows, pause starts and pause ends of one run
MaxEventos == 8
\* events of one run of the concurrent specification
MaxEventosConc == 6
\* events of one run of the specification of the average
MaxEventosProm == 11
\* events of one run of the specification of the classification
MaxEventosEstado == 7
\* events of one run of the specification with the metrics read
MaxEventosServicio == 7
\* events and failed requests of one run of the specification with failures
MaxEventosFallos == 7
\* events of one run of the specification of two operators
MaxEventosDos == 7

\* ------------------------------------------------------- program constants
\* "if tiempo_ciclo_s > 300 or tiempo_ciclo_s < 0"
MaxCicloS == 300
\* "LIMIT 4" of the query of the previous valid cycles
LimiteUltimos == 4

None == <<>>
Some(v) == <<v>>

\* Operators with an active row in Operario_Tarea, and one without.
ConTarea == {1, 2}
SinTarea == {3}
\* The operators whose requests a run draws from.
Operarios == {1}
\* The join without "ot.activa = TRUE": an assignment that is not active counts.
TareasDeTodos ==
  [o \in ConTarea \cup SinTarea |->
     [id_tarea |-> o, umbral_excelente_s |-> 11, umbral_lento_s |-> 15]]

\* The row of Tareas joined to each operator's active assignment.
Tareas ==
  [o \in ConTarea |->
     [id_tarea |-> o, umbral_excelente_s |-> 11, umbral_lento_s |-> 15]]

\* The clock advances between two requests by one tick, 5 s or 300 s.
Pasos == {1, 5 * TicksPerSec, MaxCicloS * TicksPerSec}
\* The service is started five seconds before midnight.
RelojInicial == (86400 - 5) * TicksPerSec

\* datetime.date() / CURRENT_DATE: the calendar day of an instant (the server
\* and the database share one clock and one time zone).
Fecha(t) == t \div (86400 * TicksPerSec)

VARIABLES
  reloj,     \* datetime.now(), in ticks
  pasos,     \* number of clock advances so far
  ciclos,    \* table Registros_Ciclos: a set of rows
  pausas,    \* table Registros_Pausas: a set of rows
  seqCiclo,  \* the sequence behind Registros_Ciclos.id_registro
  seqPausa,  \* the sequence behind Registros_Pausas.id_pausa
  resp,      \* the last HTTP response sent
  obs,       \* per id_registro, what the computation of that row read
  proc       \* per server process, the request it is in the middle of

vars == <<reloj, pasos, ciclos, pausas, seqCiclo, seqPausa, resp, obs, proc>>

\* ----------------------------------------------------------------- helpers
Max(S) == CHOOSE x \in S : \A y \in S : y <= x
Min2(a, b) == IF a <= b THEN a ELSE b

RECURSIVE SumaDuraciones(_)
\* SUM(duracion_s) over a set of closed pause rows, in seconds.
SumaDuraciones(S) ==
  IF S = {} THEN 0
  ELSE LET p == CHOOSE x \in S : TRUE
       IN  p.duracion_s[1] + SumaDuraciones(S \ {p})

RECURSIVE SumaTiempos(_)
\* sum of tiempo_ciclo_s over a set of cycle rows (the query hands over rows
\* of a known duration; a NULL would add nothing)
SumaTiempos(S) ==
  IF S = {} THEN 0
  ELSE LET c == CHOOSE x \in S : TRUE
       IN  (IF c.tiempo_ciclo_s = None THEN 0 ELSE c.tiempo_ciclo_s[1])
             + SumaTiempos(S \ {c})

\* ------------------------------------------------- queries of registrar_ciclo
\* the last cycle of the table, whoever registered it
UltimoCicloDeTodos(C, o) ==
  IF C = {} THEN None ELSE Some(Max({c.marca_tiempo : c \in C}))

\* the last cycle looked for among the rows of a known duration only
UltimoCicloValido(C, o) ==
  LET mios == {c \in C : c.id_operario = o /\ c.tiempo_ciclo_s # None}
  IN  IF mios = {} THEN None ELSE Some(Max({c.marca_tiempo : c \in mios}))

\* SELECT marca_tiempo ... ORDER BY marca_tiempo DESC LIMIT 1
UltimoCiclo(C, o) ==
  LET mios == {c \in C : c.id_operario = o}
  IN  IF mios = {} THEN None ELSE Some(Max({c.marca_tiempo : c \in mios}))

\* the window without its lower end: every pause started before now
EnVentanaSinInicio(p, a, b) == p.hora_inicio_pausa < b

\* the window with its two ends included
EnVentanaCerrada(p, a, b) == p.hora_inicio_pausa >= a /\ p.hora_inicio_pausa <= b

\* hora_inicio_pausa > %s AND hora_inicio_pausa < %s
EnVentana(p, a, b) == p.hora_inicio_pausa > a /\ p.hora_inicio_pausa < b

\* rows of the query 2.1: finalizada = TRUE, start inside the window
PausasFinalizadas(P, o, a, b) ==
  {p \in P : p.id_operario = o /\ p.finalizada /\ EnVentana(p, a, b)}

\* rows of the query 2.2: finalizada = FALSE, start inside the window
PausasSinFinalizar(P, o, a, b) ==
  {p \in P : p.id_operario = o /\ ~p.finalizada /\ EnVentana(p, a, b)}

\* the guard without its upper limit
ValidarTiempoSinTope(t) ==
  IF t < 0 THEN None ELSE Some(t)

\* the guard with ">=" for ">" and "<=" for "<"
ValidarTiempoEstricto(t) ==
  IF t >= MaxCicloS * TicksPerSec \/ t <= 0 THEN None ELSE Some(t)

\* the outlier guard: more than 5 minutes, or negative, is stored as NULL
ValidarTiempo(t) ==
  IF t > MaxCicloS * TicksPerSec \/ t < 0 THEN None ELSE Some(t)

\* the raw elapsed time, the pauses not subtracted
TiempoCicloBruto(ultimo, marca, total_pausas_s, sin_finalizar) ==
  IF ultimo = None THEN None
  ELSE IF sin_finalizar > 0 THEN None
  ELSE ValidarTiempo(marca - ultimo[1])

\* a first cycle measured as a cycle of no time
TiempoCicloDesdeCero(ultimo, marca, total_pausas_s, sin_finalizar) ==
  IF ultimo = None THEN Some(0)
  ELSE IF sin_finalizar > 0 THEN None
  ELSE ValidarTiempo((marca - ultimo[1]) - total_pausas_s * TicksPerSec)

\* tiempo_ciclo_s, from the previous timestamp, now, SUM(duracion_s) and
\* COUNT(*) of the unfinished pauses
TiempoCiclo(ultimo, marca, total_pausas_s, sin_finalizar) ==
  IF ultimo = None THEN None
  ELSE IF sin_finalizar > 0 THEN None
  ELSE ValidarTiempo((marca - ultimo[1]) - total_pausas_s * TicksPerSec)

\* the query 3 without "tiempo_ciclo_s IS NOT NULL"
CandidatosConNulos(C, o, hoy) ==
  {c \in C : c.id_operario = o /\ c.fecha_registro = hoy}

\* rows the query 3 may select from
Candidatos(C, o, hoy) ==
  {c \in C : c.id_operario = o /\ c.tiempo_ciclo_s # None /\ c.fecha_registro = hoy}

\* the query 3 with LIMIT 5
UltimosCiclosCinco(C, o, hoy) ==
  LET cand == Candidatos(C, o, hoy)
      k == Min2(LimiteUltimos + 1, Cardinality(cand))
  IN  {S \in SUBSET cand :
         /\ Cardinality(S) = k
         /\ \A x \in S, y \in cand \ S : x.marca_tiempo >= y.marca_tiempo}

\* ORDER BY marca_tiempo DESC LIMIT 4: every set of rows the query may return
\* (rows of equal marca_tiempo come in any order)
UltimosCiclos(C, o, hoy) ==
  LET cand == Candidatos(C, o, hoy)
      k == Min2(LimiteUltimos, Cardinality(cand))
  IN  {S \in SUBSET cand :
         /\ Cardinality(S) = k
         /\ \A x \in S, y \in cand \ S : x.marca_tiempo >= y.marca_tiempo}

\* the sum of the durations, not divided by their number
Promedio5Suma(tiempo, ultimos) ==
  IF tiempo = None THEN None
  ELSE Some([suma |-> tiempo[1] + SumaTiempos(ultimos), n |-> 1])

\* an average of the previous cycles alone when the duration is unknown
Promedio5DePrevios(tiempo, ultimos) ==
  IF tiempo = None
  THEN IF ultimos = {} THEN None
       ELSE Some([suma |-> SumaTiempos(ultimos), n |-> Cardinality(ultimos)])
  ELSE Some([suma |-> tiempo[1] + SumaTiempos(ultimos),
             n |-> 1 + Cardinality(ultimos)])

\* promedio_5_ciclos = sum(tiempos) / len(tiempos), as the fraction suma / n
Promedio5(tiempo, ultimos) ==
  IF tiempo = None THEN None
  ELSE Some([suma |-> tiempo[1] + SumaTiempos(ultimos),
             n |-> 1 + Cardinality(ultimos)])

\* the label of a missing row ("Sin datos") given to a missing average
EstadoSinDatos(promedio, tarea) ==
  IF promedio = None THEN "Sin datos"
  ELSE IF promedio[1].suma <= tarea.umbral_excelente_s * TicksPerSec * promedio[1].n
       THEN "Excelente"
  ELSE IF promedio[1].suma >= tarea.umbral_lento_s * TicksPerSec * promedio[1].n
       THEN "Lento"
  ELSE "Normal"

\* the average tested as "if promedio_5_ciclos:", so that 0.0 counts as none
EstadoPorVerdad(promedio, tarea) ==
  IF promedio = None \/ promedio[1].suma = 0 THEN "Normal"
  ELSE IF promedio[1].suma <= tarea.umbral_excelente_s * TicksPerSec * promedio[1].n
       THEN "Excelente"
  ELSE IF promedio[1].suma >= tarea.umbral_lento_s * TicksPerSec * promedio[1].n
       THEN "Lento"
  ELSE "Normal"

\* the thresholds compared with "<" for "<=" and ">" for ">="
EstadoEstricto(promedio, tarea) ==
  IF promedio = None THEN "Normal"
  ELSE IF promedio[1].suma < tarea.umbral_excelente_s * TicksPerSec * promedio[1].n
       THEN "Excelente"
  ELSE IF promedio[1].suma > tarea.umbral_lento_s * TicksPerSec * promedio[1].n
       THEN "Lento"
  ELSE "Normal"

\* estado, from the average and the thresholds of the task
Estado(promedio, tarea) ==
  IF promedio = None THEN "Normal"
  ELSE IF promedio[1].suma <= tarea.umbral_excelente_s * TicksPerSec * promedio[1].n
       THEN "Excelente"
  ELSE IF promedio[1].suma >= tarea.umbral_lento_s * TicksPerSec * promedio[1].n
       THEN "Lento"
  ELSE "Normal"

\* SELECT COUNT(*) ... WHERE id_operario = %s AND fecha_registro = CURRENT_DATE
CiclosHoy(C, o, hoy) ==
  Cardinality({c \in C : c.id_operario = o /\ c.fecha_registro = hoy})

\* the row without the id_registro drawn from the sequence
FilaCicloSinId(id, o, marca, tiempo, promedio, estado) ==
  [id_registro |-> 0, id_operario |-> o, id_tarea |-> Tareas[o].id_tarea,
   marca_tiempo |-> marca, tiempo_ciclo_s |-> tiempo,
   promedio_5_ciclos |-> promedio, estado |-> estado,
   fecha_registro |-> Fecha(marca)]

\* the row inserted by registrar_ciclo
FilaCiclo(id, o, marca, tiempo, promedio, estado) ==
  [id_registro |-> id, id_operario |-> o, id_tarea |-> Tareas[o].id_tarea,
   marca_tiempo |-> marca, tiempo_ciclo_s |-> tiempo,
   promedio_5_ciclos |-> promedio, estado |-> estado,
   fecha_registro |-> Fecha(marca)]

\* ----------------------------------------------------------------- responses
Respuesta(op, o, codigo, id, tiempo, promedio, estado, hoy, duracion) ==
  [op |-> op, id_operario |-> o, codigo |-> codigo, id |-> id,
   tiempo_ciclo_s |-> tiempo, promedio_5_ciclos |-> promedio,
   estado |-> estado, ciclos_completados_hoy |-> hoy, duracion_s |-> duracion]

SinRespuesta == Respuesta("", 0, 0, 0, None, None, "", 0, None)

\* what the computation of a cycle row read (kept beside the row, not in it)
Observado(ultimo, marca, total, cerradas, abiertas) ==
  [ultimo |-> ultimo, marca |-> marca, total_pausas_s |-> total,
   cerradas |-> {p.id_pausa : p \in cerradas},
   abiertas |-> {p.id_pausa : p \in abiertas}]

\* ------------------------------------------------------- server processes
\* two server processes, each serving one request at a time
Procs == {1, 2}

\* a process between two requests
Libre ==
  [pc |-> "libre", o |-> 0, hoy |-> 0, ultimo |-> None, marca |-> 0,
   cerradas |-> {}, abiertas |-> {}, fila |-> None,
   activa |-> None, ciclos_hoy |-> 0]

\* what has happened so far: every event leaves its trace in the state
Eventos ==
  pasos + Cardinality(ciclos) + Cardinality(pausas)
        + Cardinality({p \in pausas : p.finalizada})

Init ==
  /\ reloj = RelojInicial
  /\ pasos = 0
  /\ ciclos = {}
  /\ pausas = {}
  /\ seqCiclo = 0
  /\ seqPausa = 0
  /\ resp = SinRespuesta
  /\ obs = <<>>
  /\ proc = [p \in Procs |-> Libre]

\* the clock advances
Tick(d) ==
  /\ reloj' = reloj + d
  /\ pasos' = pasos + 1
  /\ UNCHANGED <<ciclos, pausas, seqCiclo, seqPausa, resp, obs, proc>>

\* POST /api/ciclo, the whole request in one transaction
RegistrarCiclo(o) ==
  IF o \notin DOMAIN Tareas
  THEN /\ resp' = Respuesta("ciclo", o, 404, 0, None, None, "", 0, None)
       /\ UNCHANGED <<reloj, pasos, ciclos, pausas, seqCiclo, seqPausa, obs, proc>>
  ELSE
    LET ultimo == UltimoCiclo(ciclos, o)
        marca == reloj
        desde == IF ultimo = None THEN marca ELSE ultimo[1]
        cerradas == IF ultimo = None THEN {}
                    ELSE PausasFinalizadas(pausas, o, desde, marca)
        abiertas == IF ultimo = None THEN {}
                    ELSE PausasSinFinalizar(pausas, o, desde, marca)
        total == SumaDuraciones(cerradas)
        tiempo == TiempoCiclo(ultimo, marca, total, Cardinality(abiertas))
        id == seqCiclo + 1
    IN  /\ \E ultimos \in UltimosCiclos(ciclos, o, Fecha(reloj)) :
             LET promedio == Promedio5(tiempo, ultimos)
                 estado == Estado(promedio, Tareas[o])
                 fila == FilaCiclo(id, o, marca, tiempo, promedio, estado)
             IN  /\ ciclos' = ciclos \cup {fila}
                 /\ seqCiclo' = id
                 /\ resp' = Respuesta("ciclo", o, 201, id, tiempo, promedio, estado,
                                      CiclosHoy(ciclos', o, Fecha(reloj)), None)
                 /\ obs' = obs @@ (id :>
                      Observado(ultimo, marca, total, cerradas, abiertas))
        /\ UNCHANGED <<reloj, pasos, pausas, seqPausa, proc>>

\* ------------------------------------------------- queries of registrar_pausa
\* SELECT id_pausa ... WHERE id_operario = %s AND finalizada = FALSE
PausasAbiertas(P, o) == {p \in P : p.id_operario = o /\ ~p.finalizada}

\* the open pause taken in ascending order: the oldest one
PausaActivaMasAntigua(P, o) ==
  {p \in PausasAbiertas(P, o) :
     \A q \in PausasAbiertas(P, o) : q.hora_inicio_pausa >= p.hora_inicio_pausa}

\* ... ORDER BY hora_inicio_pausa DESC LIMIT 1: every row the query may return
PausaActiva(P, o) ==
  {p \in PausasAbiertas(P, o) :
     \A q \in PausasAbiertas(P, o) : q.hora_inicio_pausa <= p.hora_inicio_pausa}

\* the seconds rounded to the nearest whole number, halves upward
DuracionSRedondeada(inicio, fin) ==
  IF fin >= inicio THEN (2 * (fin - inicio) + TicksPerSec) \div (2 * TicksPerSec)
  ELSE -((2 * (inicio - fin) + TicksPerSec) \div (2 * TicksPerSec))

\* int(duracion.total_seconds()): whole seconds, truncated toward zero
DuracionS(inicio, fin) ==
  IF fin >= inicio THEN (fin - inicio) \div TicksPerSec
  ELSE -((inicio - fin) \div TicksPerSec)

\* the row inserted by INICIO
FilaPausa(id, o, inicio) ==
  [id_pausa |-> id, id_operario |-> o, hora_inicio_pausa |-> inicio,
   hora_fin_pausa |-> None, duracion_s |-> None, finalizada |-> FALSE]

\* the UPDATE without "finalizada = TRUE"
CerrarPausaSinMarcar(P, id, fin, duracion) ==
  {IF p.id_pausa = id
   THEN [p EXCEPT !.hora_fin_pausa = Some(fin), !.duracion_s = Some(duracion)]
   ELSE p : p \in P}

\* UPDATE ... SET hora_fin_pausa, duracion_s, finalizada = TRUE WHERE id_pausa = %s
CerrarPausa(P, id, fin, duracion) ==
  {IF p.id_pausa = id
   THEN [p EXCEPT !.hora_fin_pausa = Some(fin), !.duracion_s = Some(duracion),
                  !.finalizada = TRUE]
   ELSE p : p \in P}

\* INICIO as a toggle: with a pause open, it closes that pause
PausaInicioAlterna(o) ==
  IF PausasAbiertas(pausas, o) # {}
  THEN \E activa \in PausaActiva(pausas, o) :
         LET duracion == DuracionS(activa.hora_inicio_pausa, reloj)
         IN  /\ pausas' = CerrarPausa(pausas, activa.id_pausa, reloj, duracion)
             /\ resp' = Respuesta("inicio", o, 201, activa.id_pausa, None, None, "",
                                  0, Some(duracion))
             /\ UNCHANGED <<reloj, pasos, ciclos, seqCiclo, seqPausa, obs, proc>>
  ELSE LET id == seqPausa + 1
       IN  /\ pausas' = pausas \cup {FilaPausa(id, o, reloj)}
           /\ seqPausa' = id
           /\ resp' = Respuesta("inicio", o, 201, id, None, None, "", 0, None)
           /\ UNCHANGED <<reloj, pasos, ciclos, seqCiclo, obs, proc>>

\* INICIO without the query of an open pause
PausaInicioSinVerificar(o) ==
  LET id == seqPausa + 1
  IN  /\ pausas' = pausas \cup {FilaPausa(id, o, reloj)}
      /\ seqPausa' = id
      /\ resp' = Respuesta("inicio", o, 201, id, None, None, "", 0, None)
      /\ UNCHANGED <<reloj, pasos, ciclos, seqCiclo, obs, proc>>

\* POST /api/pausa, accion = INICIO
PausaInicio(o) ==
  IF PausasAbiertas(pausas, o) # {}
  THEN /\ resp' = Respuesta("inicio", o, 400, 0, None, None, "", 0, None)
       /\ UNCHANGED <<reloj, pasos, ciclos, pausas, seqCiclo, seqPausa, obs, proc>>
  ELSE LET id == seqPausa + 1
       IN  /\ pausas' = pausas \cup {FilaPausa(id, o, reloj)}
           /\ seqPausa' = id
           /\ resp' = Respuesta("inicio", o, 201, id, None, None, "", 0, None)
           /\ UNCHANGED <<reloj, pasos, ciclos, seqCiclo, obs, proc>>

\* POST /api/pausa, accion = FIN
PausaFin(o) ==
  IF PausasAbiertas(pausas, o) = {}
  THEN /\ resp' = Respuesta("fin", o, 404, 0, None, None, "", 0, None)
       /\ UNCHANGED <<reloj, pasos, ciclos, pausas, seqCiclo, seqPausa, obs, proc>>
  ELSE \E activa \in PausaActiva(pausas, o) :
         LET hora_fin == reloj
             duracion == DuracionS(activa.hora_inicio_pausa, hora_fin)
         IN  /\ pausas' = CerrarPausa(pausas, activa.id_pausa, hora_fin, duracion)
             /\ resp' = Respuesta("fin", o, 201, activa.id_pausa, None, None, "", 0,
                                  Some(duracion))
             /\ UNCHANGED <<reloj, pasos, ciclos, seqCiclo, seqPausa, obs, proc>>

\* ------------------------------------------------ queries of obtener_metricas
\* Tareas.tiempo_estandar_s of the operator's task
TiempoEstandar == [o \in ConTarea |-> 13]

\* COUNT(*), AVG(tiempo_ciclo_s) ... fecha_registro = CURRENT_DATE AND
\* tiempo_ciclo_s IS NOT NULL: the rows counted and averaged
CiclosInfo(C, o, hoy) ==
  {c \in C : c.id_operario = o /\ c.fecha_registro = hoy /\ c.tiempo_ciclo_s # None}

\* SELECT promedio_5_ciclos, estado ... ORDER BY marca_tiempo DESC LIMIT 1:
\* every row the query may return
UltimoRegistro(C, o) ==
  {c \in C : /\ c.id_operario = o
              /\ \A d \in C : d.id_operario = o => d.marca_tiempo <= c.marca_tiempo}

\* "float(x) if x else None": a stored 0 reads as no value
SiVerdadero(x) == IF x = None \/ x[1].suma = 0 THEN None ELSE x

\* the time in pause passed as "x if x else None": 0 s reads as no value
RespuestaMetricasVerdad(o, codigo, total, dia, ultimos_5, estado, en_pausa, t_pausa, efic) ==
  [op |-> "metricas", id_operario |-> o, codigo |-> codigo, ciclos_hoy |-> total,
   promedio_dia |-> dia, promedio_ultimos_5 |-> ultimos_5,
   estado_actual |-> estado, en_pausa |-> en_pausa,
   tiempo_pausa_actual_s |-> IF t_pausa = Some(0) THEN None ELSE t_pausa,
   eficiencia_porcentaje |-> efic]

\* the body of MetricasResponse (name, task name and standard time left out)
RespuestaMetricas(o, codigo, total, dia, ultimos_5, estado, en_pausa, t_pausa, efic) ==
  [op |-> "metricas", id_operario |-> o, codigo |-> codigo, ciclos_hoy |-> total,
   promedio_dia |-> dia, promedio_ultimos_5 |-> ultimos_5,
   estado_actual |-> estado, en_pausa |-> en_pausa,
   tiempo_pausa_actual_s |-> t_pausa, eficiencia_porcentaje |-> efic]

\* GET /api/metricas/{id_operario}: reads, and writes nothing
ObtenerMetricas(o) ==
  /\ IF o \notin DOMAIN Tareas
     THEN resp' = RespuestaMetricas(o, 404, 0, None, None, "", FALSE, None, None)
     ELSE
       LET info == CiclosInfo(ciclos, o, Fecha(reloj))
           promedio == IF info = {} THEN None
                       ELSE Some([suma |-> SumaTiempos(info), n |-> Cardinality(info)])
           promedio_dia == SiVerdadero(promedio)
           abiertas == PausasAbiertas(pausas, o)
           eficiencia ==
             IF promedio_dia = None THEN None
             ELSE Some([num |-> 100 * TiempoEstandar[o] * TicksPerSec * promedio_dia[1].n,
                        den |-> promedio_dia[1].suma])
       IN  \E ultimo \in (IF UltimoRegistro(ciclos, o) = {} THEN {None}
                           ELSE {Some(c) : c \in UltimoRegistro(ciclos, o)}) :
           \E activa \in (IF abiertas = {} THEN {None}
                           ELSE {Some(p) : p \in abiertas}) :
             resp' = RespuestaMetricas(o, 200, Cardinality(info), promedio_dia,
                       IF ultimo = None THEN None
                       ELSE SiVerdadero(ultimo[1].promedio_5_ciclos),
                       IF ultimo = None THEN "Sin datos" ELSE ultimo[1].estado,
                       activa # None,
                       IF activa = None THEN None
                       ELSE Some(DuracionS(activa[1].hora_inicio_pausa, reloj)),
                       eficiencia)
  /\ UNCHANGED <<reloj, pasos, ciclos, pausas, seqCiclo, seqPausa, obs, proc>>

\* ------------------------------------------------------ requests that fail
\* the connection that commits whatever the outcome of the request
AlSalirSiempreCommit(antes, escrito, error) == escrito

\* get_db_connection: the table after the "with" block, which held antes at
\* its start and escrito after the request's writes: commit, or rollback if an
\* exception went through the block
AlSalir(antes, escrito, error) == IF error THEN antes ELSE escrito

\* inserts that were rolled back: values of the sequences that no row holds
\* (a rollback does not give a value back to its sequence)
Fallidos == (seqCiclo - Cardinality(ciclos)) + (seqPausa - Cardinality(pausas))

\* POST /api/ciclo that raises after its INSERT (the count query, the making
\* of the response or the commit fails): rollback, and 500
RegistrarCicloFalla(o) ==
  /\ o \in DOMAIN Tareas
  /\ LET ultimo == UltimoCiclo(ciclos, o)
         marca == reloj
         desde == IF ultimo = None THEN marca ELSE ultimo[1]
         cerradas == IF ultimo = None THEN {}
                     ELSE PausasFinalizadas(pausas, o, desde, marca)
         abiertas == IF ultimo = None THEN {}
                     ELSE PausasSinFinalizar(pausas, o, desde, marca)
         tiempo == TiempoCiclo(ultimo, marca, SumaDuraciones(cerradas),
                               Cardinality(abiertas))
         id == seqCiclo + 1
     IN  \E ultimos \in UltimosCiclos(ciclos, o, Fecha(reloj)) :
           LET promedio == Promedio5(tiempo, ultimos)
               fila == FilaCiclo(id, o, marca, tiempo, promedio,
                                 Estado(promedio, Tareas[o]))
           IN  /\ ciclos' = AlSalir(ciclos, ciclos \cup {fila}, TRUE)
               /\ seqCiclo' = id
  /\ resp' = Respuesta("ciclo", o, 500, 0, None, None, "", 0, None)
  /\ UNCHANGED <<reloj, pasos, pausas, seqPausa, obs, proc>>

\* POST /api/pausa INICIO that raises after its INSERT: rollback, and 500
PausaInicioFalla(o) ==
  /\ PausasAbiertas(pausas, o) = {}
  /\ pausas' = AlSalir(pausas, pausas \cup {FilaPausa(seqPausa + 1, o, reloj)}, TRUE)
  /\ seqPausa' = seqPausa + 1
  /\ resp' = Respuesta("inicio", o, 500, 0, None, None, "", 0, None)
  /\ UNCHANGED <<reloj, pasos, ciclos, seqCiclo, obs, proc>>

\* POST /api/pausa FIN that raises after its UPDATE: rollback, and 500
PausaFinFalla(o) ==
  /\ PausasAbiertas(pausas, o) # {}
  /\ \E activa \in PausaActiva(pausas, o) :
       pausas' = AlSalir(pausas,
                         CerrarPausa(pausas, activa.id_pausa, reloj,
                                     DuracionS(activa.hora_inicio_pausa, reloj)),
                         TRUE)
  /\ resp' = Respuesta("fin", o, 500, 0, None, None, "", 0, None)
  /\ UNCHANGED <<reloj, pasos, ciclos, seqCiclo, seqPausa, obs, proc>>

\* ----------------------------------------------------------------------
\* The same handlers served by several processes.  get_db_connection gives
\* every request a connection and a transaction of its own (READ COMMITTED,
\* no lock taken): each statement reads what is committed when it runs, plus
\* the request's own writes, and the writes show at the commit that follows
\* the handler's return.
\* ----------------------------------------------------------------------
Paso(p, r) == proc' = [proc EXCEPT ![p] = r]

EnCurso == Cardinality({p \in Procs : proc[p].pc # "libre"})

\* the clock advances between two statements
PasosConc == {5 * TicksPerSec}

TickConc(d) ==
  /\ Eventos + EnCurso < MaxEventosConc
  /\ Tick(d)

\* registrar_ciclo: the task query, the query of the last cycle, now()
CicloUltimo(p, o) ==
  /\ proc[p].pc = "libre"
  /\ o \in DOMAIN Tareas
  /\ Eventos + EnCurso < MaxEventosConc
  /\ LET ultimo == UltimoCiclo(ciclos, o)
     IN  Paso(p, [Libre EXCEPT !.pc = IF ultimo = None THEN "promedio" ELSE "suma",
                               !.o = o, !.hoy = Fecha(reloj),
                               !.ultimo = ultimo, !.marca = reloj])
  /\ UNCHANGED <<reloj, pasos, ciclos, pausas, seqCiclo, seqPausa, resp, obs>>

\* registrar_ciclo: query 2.1, the finished pauses of the window
CicloSuma(p) ==
  /\ proc[p].pc = "suma"
  /\ Paso(p, [proc[p] EXCEPT
               !.pc = "abiertas",
               !.cerradas = PausasFinalizadas(pausas, proc[p].o,
                                              proc[p].ultimo[1], proc[p].marca)])
  /\ UNCHANGED <<reloj, pasos, ciclos, pausas, seqCiclo, seqPausa, resp, obs>>

\* registrar_ciclo: query 2.2, the unfinished pauses of the window
CicloAbiertas(p) ==
  /\ proc[p].pc = "abiertas"
  /\ Paso(p, [proc[p] EXCEPT
               !.pc = "promedio",
               !.abiertas = PausasSinFinalizar(pausas, proc[p].o,
                                               proc[p].ultimo[1], proc[p].marca)])
  /\ UNCHANGED <<reloj, pasos, ciclos, pausas, seqCiclo, seqPausa, resp, obs>>

\* registrar_ciclo: query 3, the average, the state and the INSERT
CicloInsertar(p) ==
  /\ proc[p].pc = "promedio"
  /\ \E ultimos \in UltimosCiclos(ciclos, proc[p].o, proc[p].hoy) :
       LET l == proc[p]
           tiempo == TiempoCiclo(l.ultimo, l.marca, SumaDuraciones(l.cerradas),
                                 Cardinality(l.abiertas))
           promedio == Promedio5(tiempo, ultimos)
           fila == FilaCiclo(seqCiclo + 1, l.o, l.marca, tiempo, promedio,
                             Estado(promedio, Tareas[l.o]))
       IN  /\ Paso(p, [l EXCEPT !.pc = "contar", !.fila = Some(fila)])
           /\ seqCiclo' = seqCiclo + 1
  /\ UNCHANGED <<reloj, pasos, ciclos, pausas, seqPausa, resp, obs>>

\* registrar_ciclo: query 6, the cycles of today, the new row among them
CicloContar(p) ==
  /\ proc[p].pc = "contar"
  /\ Paso(p, [proc[p] EXCEPT
               !.pc = "commit_ciclo",
               !.ciclos_hoy = CiclosHoy(ciclos \cup {proc[p].fila[1]}, proc[p].o,
                                        proc[p].hoy)])
  /\ UNCHANGED <<reloj, pasos, ciclos, pausas, seqCiclo, seqPausa, resp, obs>>

\* registrar_ciclo: the response, and the commit
CicloCommit(p) ==
  /\ proc[p].pc = "commit_ciclo"
  /\ LET l == proc[p]
         fila == l.fila[1]
     IN  /\ ciclos' = ciclos \cup {fila}
         /\ resp' = Respuesta("ciclo", l.o, 201, fila.id_registro,
                              fila.tiempo_ciclo_s, fila.promedio_5_ciclos,
                              fila.estado, l.ciclos_hoy, None)
         /\ obs' = obs @@ (fila.id_registro :>
              Observado(l.ultimo, l.marca, SumaDuraciones(l.cerradas), l.cerradas,
                        l.abiertas))
  /\ Paso(p, Libre)
  /\ UNCHANGED <<reloj, pasos, pausas, seqCiclo, seqPausa>>

\* registrar_pausa INICIO: the query of an open pause; 400 if there is one
InicioBuscar(p, o) ==
  /\ proc[p].pc = "libre"
  /\ IF PausasAbiertas(pausas, o) # {}
     THEN /\ resp' = Respuesta("inicio", o, 400, 0, None, None, "", 0, None)
          /\ UNCHANGED proc
     ELSE /\ Eventos + EnCurso < MaxEventosConc
          /\ Paso(p, [Libre EXCEPT !.pc = "insertar", !.o = o])
          /\ UNCHANGED resp
  /\ UNCHANGED <<reloj, pasos, ciclos, pausas, seqCiclo, seqPausa, obs>>

\* registrar_pausa INICIO: now() and the INSERT
InicioInsertar(p) ==
  /\ proc[p].pc = "insertar"
  /\ Paso(p, [proc[p] EXCEPT
               !.pc = "commit_inicio",
               !.fila = Some(FilaPausa(seqPausa + 1, proc[p].o, reloj))])
  /\ seqPausa' = seqPausa + 1
  /\ UNCHANGED <<reloj, pasos, ciclos, pausas, seqCiclo, resp, obs>>

\* registrar_pausa INICIO: the response, and the commit
InicioCommit(p) ==
  /\ proc[p].pc = "commit_inicio"
  /\ pausas' = pausas \cup {proc[p].fila[1]}
  /\ resp' = Respuesta("inicio", proc[p].o, 201, proc[p].fila[1].id_pausa,
                       None, None, "", 0, None)
  /\ Paso(p, Libre)
  /\ UNCHANGED <<reloj, pasos, ciclos, seqCiclo, seqPausa, obs>>

\* registrar_pausa FIN: the query of the open pause; 404 if there is none
FinBuscar(p, o) ==
  /\ proc[p].pc = "libre"
  /\ IF PausasAbiertas(pausas, o) = {}
     THEN /\ resp' = Respuesta("fin", o, 404, 0, None, None, "", 0, None)
          /\ UNCHANGED proc
     ELSE /\ Eventos + EnCurso < MaxEventosConc
          /\ \E activa \in PausaActiva(pausas, o) :
               Paso(p, [Libre EXCEPT !.pc = "cerrar", !.o = o,
                                     !.activa = Some(activa)])
          /\ UNCHANGED resp
  /\ UNCHANGED <<reloj, pasos, ciclos, pausas, seqCiclo, seqPausa, obs>>

\* registrar_pausa FIN: now() and the UPDATE, which waits for the row while
\* another transaction holds an uncommitted UPDATE of it
FinCerrar(p) ==
  /\ proc[p].pc = "cerrar"
  /\ \A q \in Procs \ {p} :
       proc[q].pc = "commit_fin" =>
         proc[q].activa[1].id_pausa # proc[p].activa[1].id_pausa
  /\ Paso(p, [proc[p] EXCEPT !.pc = "commit_fin", !.marca = reloj])
  /\ UNCHANGED <<reloj, pasos, ciclos, pausas, seqCiclo, seqPausa, resp, obs>>

\* registrar_pausa FIN: the response, and the commit
FinCommit(p) ==
  /\ proc[p].pc = "commit_fin"
  /\ LET l == proc[p]
         duracion == DuracionS(l.activa[1].hora_inicio_pausa, l.marca)
     IN  /\ pausas' = CerrarPausa(pausas, l.activa[1].id_pausa, l.marca, duracion)
         /\ resp' = Respuesta("fin", l.o, 201, l.activa[1].id_pausa, None, None, "",
                              0, Some(duracion))
  /\ Paso(p, Libre)
  /\ UNCHANGED <<reloj, pasos, ciclos, seqCiclo, seqPausa, obs>>

NextConc ==
  \/ \E d \in PasosConc : TickConc(d)
  \/ \E p \in Procs, o \in Operarios : CicloUltimo(p, o)
  \/ \E p \in Procs : CicloSuma(p)
  \/ \E p \in Procs : CicloAbiertas(p)
  \/ \E p \in Procs : CicloInsertar(p)
  \/ \E p \in Procs : CicloContar(p)
  \/ \E p \in Procs : CicloCommit(p)
  \/ \E p \in Procs, o \in Operarios : InicioBuscar(p, o)
  \/ \E p \in Procs : InicioInsertar(p)
  \/ \E p \in Procs : InicioCommit(p)
  \/ \E p \in Procs, o \in Operarios : FinBuscar(p, o)
  \/ \E p \in Procs : FinCerrar(p)
  \/ \E p \in Procs : FinCommit(p)

SpecConc == Init /\ [][NextConc]_vars

\* One server process: a handler is "async def" and never awaits, so the
\* event loop runs each request to its end before it takes the next.
Next ==
  \/ \E d \in Pasos : Eventos < MaxEventos /\ Tick(d)
  \/ \E o \in Operarios \cup SinTarea : Eventos < MaxEventos /\ RegistrarCiclo(o)
  \/ \E o \in Operarios : Eventos < MaxEventos /\ PausaInicio(o)
  \/ \E o \in Operarios : Eventos < MaxEventos /\ PausaFin(o)

Spec == Init /\ [][Next]_vars

\* A longer run of one operator who takes no pause: the five-cycle average.
PasosProm == {1, 5 * TicksPerSec}

NextProm ==
  \/ \E d \in PasosProm : Eventos < MaxEventosProm /\ Tick(d)
  \/ \E o \in Operarios : Eventos < MaxEventosProm /\ RegistrarCiclo(o)

SpecProm == Init /\ [][NextProm]_vars

\* The three endpoints of one operator, and of an operator without a task,
\* served by one process.
NextServicio ==
  \/ \E d \in Pasos : Eventos < MaxEventosServicio /\ Tick(d)
  \/ \E o \in Operarios \cup SinTarea :
       Eventos < MaxEventosServicio /\ RegistrarCiclo(o)
  \/ \E o \in Operarios : Eventos < MaxEventosServicio /\ PausaInicio(o)
  \/ \E o \in Operarios : Eventos < MaxEventosServicio /\ PausaFin(o)
  \/ \E o \in Operarios \cup SinTarea :
       Eventos < MaxEventosServicio /\ ObtenerMetricas(o)

SpecServicio == Init /\ [][NextServicio]_vars

\* The cycle and pause requests of one process, any of which may raise after
\* its write.
NextFallos ==
  \/ \E d \in PasosProm : Eventos + Fallidos < MaxEventosFallos /\ Tick(d)
  \/ \E o \in Operarios \cup SinTarea :
       Eventos + Fallidos < MaxEventosFallos /\ RegistrarCiclo(o)
  \/ \E o \in Operarios : Eventos + Fallidos < MaxEventosFallos /\ PausaInicio(o)
  \/ \E o \in Operarios : Eventos + Fallidos < MaxEventosFallos /\ PausaFin(o)
  \/ \E o \in Operarios : Eventos + Fallidos < MaxEventosFallos /\ RegistrarCicloFalla(o)
  \/ \E o \in Operarios : Eventos + Fallidos < MaxEventosFallos /\ PausaInicioFalla(o)
  \/ \E o \in Operarios : Eventos + Fallidos < MaxEventosFallos /\ PausaFinFalla(o)

SpecFallos == Init /\ [][NextFallos]_vars

\* The cycle and pause requests of two operators, served by one process.
NextDos ==
  \/ \E d \in PasosProm : Eventos < MaxEventosDos /\ Tick(d)
  \/ \E o \in ConTarea : Eventos < MaxEventosDos /\ RegistrarCiclo(o)
  \/ \E o \in ConTarea : Eventos < MaxEventosDos /\ PausaInicio(o)
  \/ \E o \in ConTarea : Eventos < MaxEventosDos /\ PausaFin(o)

SpecDos == Init /\ [][NextDos]_vars

\* Cycles 5.5 s, 10 s or 16 s apart (or sums of these): averages on both
\* sides of the thresholds 11 s and 15 s, and on them.
PasosEstado == {(11 * TicksPerSec) \div 2, 10 * TicksPerSec, 16 * TicksPerSec}

NextEstado ==
  \/ \E d \in PasosEstado : Eventos < MaxEventosEstado /\ Tick(d)
  \/ \E o \in Operarios : Eventos < MaxEventosEstado /\ RegistrarCiclo(o)

SpecEstado == Init /\ [][NextEstado]_vars

\* ======================================================================
\* Properties
\* ======================================================================
\* the rows an operator registered before row c
Anteriores(c) ==
  {d \in ciclos : d.id_operario = c.id_operario /\ d.id_registro < c.id_registro}

\* the timestamp of the operator's previous cycle row
MarcaAnterior(c) == Max({d.marca_tiempo : d \in Anteriores(c)})

TopeTicks == MaxCicloS * TicksPerSec

\* ticks of the pause p that fall between the instants a and b
Solape(p, a, b) ==
  LET ini == IF p.hora_inicio_pausa > a THEN p.hora_inicio_pausa ELSE a
      fin == IF p.finalizada /\ p.hora_fin_pausa[1] < b THEN p.hora_fin_pausa[1] ELSE b
  IN  IF fin > ini THEN fin - ini ELSE 0

RECURSIVE SumaSolapes(_, _, _)
SumaSolapes(S, a, b) ==
  IF S = {} THEN 0
  ELSE LET p == CHOOSE x \in S : TRUE
       IN  Solape(p, a, b) + SumaSolapes(S \ {p}, a, b)

\* ticks the operator of row c spent paused between the previous row and c
TiempoEnPausa(c) ==
  SumaSolapes({p \in pausas : p.id_operario = c.id_operario},
              MarcaAnterior(c), c.marca_tiempo)

\* the closed pauses of c's operator that start strictly inside c's window
CerradasEnVentana(c) ==
  {p \in pausas : /\ p.id_operario = c.id_operario
                  /\ p.finalizada
                  /\ p.hora_inicio_pausa > MarcaAnterior(c)
                  /\ p.hora_inicio_pausa < c.marca_tiempo}

\* C1: every cycle row's duration is absent or within [0, 300] seconds.
C1_DuracionAcotada ==
  \A c \in ciclos :
    \/ c.tiempo_ciclo_s = None
    \/ (0 <= c.tiempo_ciclo_s[1] /\ c.tiempo_ciclo_s[1] <= TopeTicks)

\* a raw delta above 300 s was stored as NULL, after a pause was closed, and
\* another row holds a known duration
C1_Testigo ==
  /\ \E p \in pausas : p.finalizada
  /\ \E c \in ciclos : c.tiempo_ciclo_s # None /\ c.tiempo_ciclo_s[1] > 0
  /\ \E c \in ciclos :
       /\ Anteriores(c) # {}
       /\ c.marca_tiempo - MarcaAnterior(c) > TopeTicks
       /\ c.tiempo_ciclo_s = None

\* C2 (as claimed): a known duration equals the wall-clock delta since the
\* operator's previous cycle row minus all the time the operator spent paused
\* between the two completions.
C2_ExcluyeTodaPausa ==
  \A c \in ciclos :
    (c.tiempo_ciclo_s # None /\ Anteriores(c) # {}) =>
      c.tiempo_ciclo_s[1] = (c.marca_tiempo - MarcaAnterior(c)) - TiempoEnPausa(c)

\* C3 (as claimed): an open pause that overlaps the interval between the
\* previous cycle row and now, whatever its start time, gives the cycle an
\* unknown duration.
C3_PausaAbiertaDesconocido ==
  \A c \in ciclos :
    (/\ Anteriores(c) # {}
     /\ \E p \in pausas :
          /\ p.id_operario = c.id_operario
          /\ p.hora_inicio_pausa < c.marca_tiempo
          /\ (~p.finalizada \/ p.hora_fin_pausa[1] > c.marca_tiempo))
    => c.tiempo_ciclo_s = None

\* C4 (as claimed): under any interleaving of concurrent pause requests an
\* operator has at most one open pause.
C4_UnaPausaAbierta ==
  \A o \in ConTarea : Cardinality(PausasAbiertas(pausas, o)) <= 1

\* C5 (as claimed): the computation of a cycle sees every pause that starts
\* inside its window, as open or as closed: never neither.
C5_FotoConsistente ==
  \A c \in ciclos :
    obs[c.id_registro].ultimo # None =>
      \A p \in pausas :
        (/\ p.id_operario = c.id_operario
         /\ p.hora_inicio_pausa > obs[c.id_registro].ultimo[1]
         /\ p.hora_inicio_pausa < c.marca_tiempo)
        => p.id_pausa \in obs[c.id_registro].cerradas \cup obs[c.id_registro].abiertas

\* C6: with a previous row, no open pause in the window and a result within
\* [0, 300] s, the duration is (now - previous timestamp) minus the sum of the
\* durations of the closed pauses that start inside the window.
C6_TiempoMenosPausas ==
  \A c \in ciclos :
    Anteriores(c) # {} =>
      LET calc == (c.marca_tiempo - MarcaAnterior(c))
                    - SumaDuraciones(CerradasEnVentana(c)) * TicksPerSec
      IN  (/\ obs[c.id_registro].abiertas = {}
           /\ 0 <= calc
           /\ calc <= TopeTicks)
          => c.tiempo_ciclo_s = Some(calc)

\* a 20 s delta with one closed pause of 5 s in the window gave 15 s
C6_Testigo ==
  \E c \in ciclos :
    /\ Anteriores(c) # {}
    /\ c.marca_tiempo - MarcaAnterior(c) = 20 * TicksPerSec
    /\ \E p \in CerradasEnVentana(c) :
         CerradasEnVentana(c) = {p} /\ p.duracion_s = Some(5)
    /\ c.tiempo_ciclo_s = Some(15 * TicksPerSec)

\* C7: the first cycle of an operator has an unknown duration and an unknown
\* average, in the row and in the response.
C7_PrimerCiclo ==
  \A c \in ciclos :
    Anteriores(c) = {} =>
      /\ c.tiempo_ciclo_s = None
      /\ c.promedio_5_ciclos = None
      /\ (resp.op = "ciclo" /\ resp.codigo = 201 /\ resp.id = c.id_registro)
           => (resp.tiempo_ciclo_s = None /\ resp.promedio_5_ciclos = None)

\* the response to an operator's first cycle, sent after the clock advanced
\* and a pause was closed
C7_Testigo ==
  /\ resp.op = "ciclo"
  /\ resp.codigo = 201
  /\ \E c \in ciclos : c.id_registro = resp.id /\ Anteriores(c) = {}
  /\ \E p \in pausas : p.finalizada /\ p.hora_fin_pausa[1] < reloj

\* C8: a computed duration above 300 s or below 0 s is stored as unknown; a
\* computed duration of exactly 0 or exactly 300 s is kept.
C8_Guarda ==
  \A c \in ciclos :
    (obs[c.id_registro].ultimo # None /\ obs[c.id_registro].abiertas = {}) =>
      LET calc == (c.marca_tiempo - obs[c.id_registro].ultimo[1])
                    - obs[c.id_registro].total_pausas_s * TicksPerSec
      IN  /\ (calc > TopeTicks \/ calc < 0) => c.tiempo_ciclo_s = None
          /\ (calc = TopeTicks \/ calc = 0) => c.tiempo_ciclo_s = Some(calc)

\* one row computed above 300 s and stored NULL, one of exactly 300 s kept,
\* one of exactly 0 s kept
C8_Testigo ==
  /\ \E c \in ciclos :
       /\ Anteriores(c) # {}
       /\ obs[c.id_registro].abiertas = {}
       /\ c.marca_tiempo - MarcaAnterior(c) > TopeTicks
       /\ c.tiempo_ciclo_s = None
  /\ \E c \in ciclos :
       /\ Anteriores(c) # {}
       /\ c.marca_tiempo - MarcaAnterior(c) = TopeTicks
       /\ c.tiempo_ciclo_s = Some(TopeTicks)
  /\ \E c \in ciclos :
       /\ Anteriores(c) # {}
       /\ c.marca_tiempo = MarcaAnterior(c)
       /\ c.tiempo_ciclo_s = Some(0)

\* the earlier rows of c's operator with a known duration and c's date
PreviosValidos(c) ==
  {d \in Anteriores(c) :
     d.tiempo_ciclo_s # None /\ d.fecha_registro = c.fecha_registro}

\* C9: with a known duration, the average is the mean of the duration and of
\* the up-to-4 most recent known durations of the operator on the same day:
\* at most 5 values.
C9_PromedioCinco ==
  \A c \in ciclos :
    c.tiempo_ciclo_s # None =>
      /\ c.promedio_5_ciclos # None
      /\ c.promedio_5_ciclos[1].n <= 5
      /\ \E S \in SUBSET PreviosValidos(c) :
           /\ Cardinality(S) = Min2(4, Cardinality(PreviosValidos(c)))
           /\ \A x \in S, y \in PreviosValidos(c) \ S :
                x.marca_tiempo >= y.marca_tiempo
           /\ c.promedio_5_ciclos[1].n = 1 + Cardinality(S)
           /\ c.promedio_5_ciclos[1].suma = c.tiempo_ciclo_s[1] + SumaTiempos(S)

\* an average of 5 values that leaves out the oldest of 5 earlier known
\* durations, which would have changed it
C9_Testigo ==
  \E c \in ciclos :
    /\ c.promedio_5_ciclos # None
    /\ c.promedio_5_ciclos[1].n = 5
    /\ Cardinality(PreviosValidos(c)) = 5
    /\ \E d \in PreviosValidos(c) :
         /\ \A e \in PreviosValidos(c) \ {d} : d.marca_tiempo < e.marca_tiempo
         /\ d.tiempo_ciclo_s[1] > 0
         /\ c.promedio_5_ciclos[1].suma
              = c.tiempo_ciclo_s[1] + SumaTiempos(PreviosValidos(c) \ {d})

\* C10: a cycle of unknown duration enters no later average: the values of an
\* average are the row's own duration and known durations of earlier rows.
C10_SoloConocidos ==
  \A c \in ciclos :
    /\ c.tiempo_ciclo_s = None => c.promedio_5_ciclos = None
    /\ c.promedio_5_ciclos # None =>
         \E S \in SUBSET {d \in Anteriores(c) : d.tiempo_ciclo_s # None} :
           /\ c.promedio_5_ciclos[1].n = 1 + Cardinality(S)
           /\ c.promedio_5_ciclos[1].suma = c.tiempo_ciclo_s[1] + SumaTiempos(S)

\* a row of unknown duration (an outlier) lies, on the same day, between a
\* known duration and a later row whose average has 2 values
C10_Testigo ==
  \E c \in ciclos :
    /\ c.promedio_5_ciclos # None
    /\ c.promedio_5_ciclos[1].n = 2
    /\ \E d \in Anteriores(c) :
         /\ d.fecha_registro = c.fecha_registro
         /\ d.tiempo_ciclo_s = None
         /\ \E e \in PreviosValidos(c) : e.id_registro < d.id_registro
         /\ d.marca_tiempo - MarcaAnterior(d) > TopeTicks

\* C11: in every cycle row the average is known exactly when the duration is
\* known, and a row of unknown average has the status Normal; the response
\* to the request that created the row says the same.
C11_PromedioSiDuracion ==
  /\ \A c \in ciclos :
       /\ (c.promedio_5_ciclos # None) <=> (c.tiempo_ciclo_s # None)
       /\ c.promedio_5_ciclos = None => c.estado = "Normal"
  /\ (resp.op = "ciclo" /\ resp.codigo = 201) =>
       /\ (resp.promedio_5_ciclos # None) <=> (resp.tiempo_ciclo_s # None)
       /\ resp.promedio_5_ciclos = None => resp.estado = "Normal"

\* a row of unknown duration (a pause was open in its window) registered
\* after rows of known duration of the same day, and a row of known average
\* whose status is not Normal
C11_Testigo ==
  /\ \E c \in ciclos :
       /\ PreviosValidos(c) # {}
       /\ obs[c.id_registro].abiertas # {}
       /\ c.tiempo_ciclo_s = None
       /\ c.promedio_5_ciclos = None
       /\ c.estado = "Normal"
  /\ \E c \in ciclos : c.promedio_5_ciclos # None /\ c.estado # "Normal"

\* the average of row c compared with a number of seconds: -1, 0 or 1
CompararPromedio(c, segundos) ==
  LET a == c.promedio_5_ciclos[1].suma
      b == segundos * TicksPerSec * c.promedio_5_ciclos[1].n
  IN  IF a < b THEN -1 ELSE IF a = b THEN 0 ELSE 1

\* C12: with a known average the status is Excelente if the average is at
\* most the excellent threshold, Lento if it is at least the slow threshold,
\* and Normal otherwise (thresholds 11 s and 15 s: 10.5 s, 13 s and 16 s give
\* Excelente, Normal and Lento).
C12_Clasificacion ==
  \A c \in ciclos :
    c.promedio_5_ciclos # None =>
      LET t == Tareas[c.id_operario]
          exc == CompararPromedio(c, t.umbral_excelente_s) <= 0
          len == CompararPromedio(c, t.umbral_lento_s) >= 0
      IN  /\ exc => c.estado = "Excelente"
          /\ len => c.estado = "Lento"
          /\ (~exc /\ ~len) => c.estado = "Normal"

\* three rows whose averages are 10.5 s, 13 s and 16 s, with the statuses
\* Excelente, Normal and Lento
C12_Testigo ==
  /\ \E c \in ciclos :
       /\ c.promedio_5_ciclos # None
       /\ 2 * c.promedio_5_ciclos[1].suma = 21 * TicksPerSec * c.promedio_5_ciclos[1].n
       /\ c.estado = "Excelente"
  /\ \E c \in ciclos :
       /\ c.promedio_5_ciclos # None
       /\ CompararPromedio(c, 13) = 0
       /\ c.estado = "Normal"
  /\ \E c \in ciclos :
       /\ c.promedio_5_ciclos # None
       /\ CompararPromedio(c, 16) = 0
       /\ c.estado = "Lento"

\* the order Excelente < Normal < Lento
Rango(estado) ==
  IF estado = "Excelente" THEN 0 ELSE IF estado = "Normal" THEN 1 ELSE 2

\* the average of row c is smaller than the average of row d
PromedioMenor(c, d) ==
  c.promedio_5_ciclos[1].suma * d.promedio_5_ciclos[1].n
    < d.promedio_5_ciclos[1].suma * c.promedio_5_ciclos[1].n

\* C13: the classification is monotonic: of two rows classified with the same
\* thresholds, the one of the smaller known average never has the slower
\* status, in the order Excelente < Normal < Lento.
C13_Monotona ==
  \A c, d \in ciclos :
    (/\ c.promedio_5_ciclos # None
     /\ d.promedio_5_ciclos # None
     /\ Tareas[c.id_operario].umbral_excelente_s = Tareas[d.id_operario].umbral_excelente_s
     /\ Tareas[c.id_operario].umbral_lento_s = Tareas[d.id_operario].umbral_lento_s
     /\ PromedioMenor(c, d))
    => Rango(c.estado) <= Rango(d.estado)

\* four rows of increasing average: 0 s and a larger one both Excelente,
\* then a Normal one, then a Lento one
C13_Testigo ==
  \E c, d, e, f \in ciclos :
    /\ c.promedio_5_ciclos # None /\ d.promedio_5_ciclos # None
    /\ e.promedio_5_ciclos # None /\ f.promedio_5_ciclos # None
    /\ c.promedio_5_ciclos[1].suma = 0
    /\ PromedioMenor(c, d) /\ PromedioMenor(d, e) /\ PromedioMenor(e, f)
    /\ c.estado = "Excelente" /\ d.estado = "Excelente"
    /\ e.estado = "Normal" /\ f.estado = "Lento"

\* the three literals of the column estado
Estados == {"Excelente", "Normal", "Lento"}

\* C14: the status of every cycle row ever created, and of every response
\* to a registered cycle, is one of Excelente, Normal and Lento.
C14_TresEstados ==
  /\ \A c \in ciclos : c.estado \in Estados
  /\ (resp.op = "ciclo" /\ resp.codigo = 201) => resp.estado \in Estados

\* the three literals occur in one table, Normal both with an unknown and
\* with a known average
C14_Testigo ==
  /\ \A e \in Estados : \E c \in ciclos : c.estado = e
  /\ \E c \in ciclos : c.estado = "Normal" /\ c.promedio_5_ciclos = None
  /\ \E c \in ciclos : c.estado = "Normal" /\ c.promedio_5_ciclos # None

\* the tables and their sequences
datos == <<ciclos, pausas, seqCiclo, seqPausa>>

\* this step answers a request op of operator o (the clock stands still
\* while a request is served, and every request leaves its response)
Atiende(op, o) ==
  /\ reloj' = reloj
  /\ resp'.op = op
  /\ resp'.id_operario = o

\* C15: a pause start for an operator who has an open pause fails with the
\* error "pause already active" (400) and changes no state: no pause row is
\* created or modified.
C15_InicioRechazado ==
  [][\A o \in Operarios :
       (PausasAbiertas(pausas, o) # {} /\ Atiende("inicio", o))
       => (resp'.codigo = 400 /\ datos' = datos)]_vars

\* the response to a rejected pause start, sent some time after the start of
\* the operator's only pause, which is still open and untouched
C15_Testigo ==
  /\ resp.op = "inicio"
  /\ resp.codigo = 400
  /\ Cardinality(pausas) = 1
  /\ \E p \in pausas :
       /\ p.id_operario = resp.id_operario
       /\ ~p.finalizada
       /\ p.hora_fin_pausa = None
       /\ p.hora_inicio_pausa < reloj

\* C16 (as claimed): a pause end for an operator who has no open pause fails
\* with the error kind of a rejected pause start (400), which is not the kind
\* of an unknown operator (404), and changes no state.
C16_FinRechazado ==
  [][\A o \in Operarios :
       (PausasAbiertas(pausas, o) = {} /\ Atiende("fin", o))
       => (resp'.codigo = 400 /\ resp'.codigo # 404 /\ datos' = datos)]_vars

\* the pause status of operator o in the table P: paused or not
EnPausa(P, o) == PausasAbiertas(P, o) # {}

\* C17: the pause status of an operator changes only from not paused to
\* paused by a successful pause start of that operator, and from paused to
\* not paused by a successful pause end of that operator: a cycle
\* registration, a metrics read or a rejected pause request leaves it as it is.
C17_DosEstados ==
  [][\A o \in ConTarea :
       EnPausa(pausas', o) # EnPausa(pausas, o) =>
         \/ (~EnPausa(pausas, o) /\ Atiende("inicio", o) /\ resp'.codigo = 201)
         \/ (EnPausa(pausas, o) /\ Atiende("fin", o) /\ resp'.codigo = 201)]_vars

\* a metrics read that finds the operator paused for the second time, after
\* a cycle was registered during this pause
C17_Testigo ==
  /\ resp.op = "metricas"
  /\ resp.codigo = 200
  /\ resp.en_pausa
  /\ \E p, q \in pausas :
       /\ p.id_operario = resp.id_operario /\ q.id_operario = resp.id_operario
       /\ p.finalizada
       /\ ~q.finalizada
       /\ \E c \in ciclos :
            c.id_operario = q.id_operario /\ c.marca_tiempo > q.hora_inicio_pausa

\* C18: a pause start of an operator who is not paused succeeds and leaves
\* the operator paused; a pause end of a paused operator succeeds, returns a
\* duration and leaves the operator not paused, so that the next start
\* succeeds again; a cycle registration of an operator with a task is
\* accepted in either status.  Hence no state rejects both a start and an end.
C18_CicloDePausa ==
  [][\A o \in Operarios :
       /\ (Atiende("inicio", o) /\ ~EnPausa(pausas, o))
            => (resp'.codigo = 201 /\ EnPausa(pausas', o))
       /\ (Atiende("fin", o) /\ EnPausa(pausas, o))
            => (/\ resp'.codigo = 201
                /\ resp'.duracion_s # None
                /\ ~EnPausa(pausas', o))
       /\ Atiende("ciclo", o) => resp'.codigo = 201]_vars

\* a cycle accepted during the operator's second pause, which was started
\* after the first pause, of one second or more, was ended
C18_Testigo ==
  /\ resp.op = "ciclo"
  /\ resp.codigo = 201
  /\ \E p, q \in pausas :
       /\ p.id_operario = resp.id_operario /\ q.id_operario = resp.id_operario
       /\ p.finalizada
       /\ p.duracion_s # None /\ p.duracion_s[1] >= 1
       /\ ~q.finalizada
       /\ q.id_pausa > p.id_pausa
       /\ q.hora_inicio_pausa >= p.hora_fin_pausa[1]
       /\ \E c \in ciclos :
            c.id_registro = resp.id /\ c.marca_tiempo >= q.hora_inicio_pausa

\* C19: a successful pause end sets the end timestamp of one open pause of
\* the operator to now, stores as its duration the whole seconds of
\* now - start (the fraction dropped), marks it closed, touches no other row,
\* and returns the stored duration.
C19_FinGuarda ==
  [][\A o \in Operarios :
       (Atiende("fin", o) /\ resp'.codigo = 201) =>
         \E p \in PausasAbiertas(pausas, o) :
           \E d \in 0..(reloj - p.hora_inicio_pausa) :
             /\ d * TicksPerSec <= reloj - p.hora_inicio_pausa
             /\ reloj - p.hora_inicio_pausa < (d + 1) * TicksPerSec
             /\ pausas' = (pausas \ {p}) \cup
                  {[p EXCEPT !.hora_fin_pausa = Some(reloj),
                             !.duracion_s = Some(d),
                             !.finalizada = TRUE]}
             /\ resp'.id = p.id_pausa
             /\ resp'.duracion_s = Some(d)]_vars

\* the response to the end of a pause of 5.5 s: 5 s stored and returned
C19_Testigo ==
  /\ resp.op = "fin"
  /\ resp.codigo = 201
  /\ resp.duracion_s = Some(5)
  /\ \E p \in pausas :
       /\ p.id_pausa = resp.id
       /\ p.finalizada
       /\ p.hora_fin_pausa = Some(reloj)
       /\ 2 * (reloj - p.hora_inicio_pausa) = 11 * TicksPerSec
       /\ p.duracion_s = Some(5)

\* C20: a successful cycle registration adds exactly one cycle row, under an
\* id_registro no earlier row has, and no step of any operation (a later
\* cycle registration, a pause start or end, a metrics read, a rejected
\* request) changes or removes a row that exists.
C20_CiclosInmutables ==
  [][/\ ciclos \subseteq ciclos'
     /\ IF resp' # resp /\ resp'.op = "ciclo" /\ resp'.codigo = 201
        THEN \E c \in ciclos' \ ciclos :
               /\ ciclos' = ciclos \cup {c}
               /\ c.id_registro = resp'.id
               /\ \A d \in ciclos : d.id_registro # c.id_registro
        ELSE ciclos' = ciclos]_vars

\* a metrics read after two cycle registrations of one instant, a pause
\* started and ended after them, and a third registration
C20_Testigo ==
  /\ resp.op = "metricas"
  /\ resp.codigo = 200
  /\ \E c, d, e \in ciclos :
       /\ c.id_registro < d.id_registro /\ d.id_registro < e.id_registro
       /\ c.marca_tiempo = d.marca_tiempo
       /\ \E p \in pausas :
            /\ p.finalizada
            /\ p.hora_inicio_pausa >= d.marca_tiempo
            /\ p.hora_fin_pausa[1] <= e.marca_tiempo

\* C21: a cycle registration for an operator who is unknown or has no active
\* task fails with 404 (not found), creates no cycle row and changes no pause.
C21_OperarioDesconocido ==
  [][\A o \in SinTarea :
       Atiende("ciclo", o) => (resp'.codigo = 404 /\ datos' = datos)]_vars

\* the 404 sent to an operator without a task while another operator has
\* cycle rows and an open pause; the table holds no row of the former
C21_Testigo ==
  /\ resp.op = "ciclo"
  /\ resp.codigo = 404
  /\ resp.id_operario \in SinTarea
  /\ Cardinality(ciclos) >= 2
  /\ \E p \in pausas : ~p.finalizada
  /\ \A c \in ciclos : c.id_operario # resp.id_operario
  /\ \A p \in pausas : p.id_operario # resp.id_operario

\* the row registered just before row c by the same operator
Previo(c) ==
  CHOOSE d \in Anteriores(c) : \A e \in Anteriores(c) : e.id_registro <= d.id_registro

\* C22: the baseline of a cycle is the timestamp of the operator's most
\* recent cycle row, whether that row's duration is known or not: the raw
\* elapsed time is measured from it, and the cycle after a row of unknown
\* duration has a known duration whenever its own window allows it.
C22_BaseUltimoRegistro ==
  \A c \in ciclos :
    Anteriores(c) # {} =>
      /\ obs[c.id_registro].ultimo = Some(MarcaAnterior(c))
      /\ MarcaAnterior(c) = Previo(c).marca_tiempo
      /\ LET calc == (c.marca_tiempo - Previo(c).marca_tiempo)
                       - obs[c.id_registro].total_pausas_s * TicksPerSec
         IN  (obs[c.id_registro].abiertas = {} /\ 0 <= calc /\ calc <= TopeTicks)
               => c.tiempo_ciclo_s = Some(calc)

\* a known duration measured from the operator's first row, and a known
\* duration measured from a row made unknown by the outlier guard
C22_Testigo ==
  /\ \E c \in ciclos :
       /\ Anteriores(c) # {}
       /\ Anteriores(Previo(c)) = {}
       /\ Previo(c).tiempo_ciclo_s = None
       /\ c.tiempo_ciclo_s = Some(c.marca_tiempo - Previo(c).marca_tiempo)
  /\ \E c \in ciclos :
       /\ Anteriores(c) # {}
       /\ Anteriores(Previo(c)) # {}
       /\ Previo(c).tiempo_ciclo_s = None
       /\ Previo(c).marca_tiempo - MarcaAnterior(Previo(c)) > TopeTicks
       /\ c.marca_tiempo > Previo(c).marca_tiempo
       /\ c.tiempo_ciclo_s = Some(c.marca_tiempo - Previo(c).marca_tiempo)

\* the pauses of c's operator
PausasDe(c) == {p \in pausas : p.id_operario = c.id_operario}

C24_CierraLaMasReciente ==
  [][\A s \in Procs :
       /\ (proc[s].pc = "libre" /\ proc'[s].pc = "cerrar") =>
            LET abiertas == PausasAbiertas(pausas, proc'[s].o)
            IN  /\ proc'[s].activa[1] \in abiertas
                /\ \A q \in abiertas :
                     q.hora_inicio_pausa <= proc'[s].activa[1].hora_inicio_pausa
       /\ (proc[s].pc = "commit_fin" /\ proc'[s].pc = "libre") =>
            /\ resp'.id = proc[s].activa[1].id_pausa
            /\ \A q \in pausas :
                 q.id_pausa # proc[s].activa[1].id_pausa => q \in pausas'
            /\ \A q \in pausas' :
                 IF q.id_pausa = proc[s].activa[1].id_pausa
                 THEN q.finalizada
                 ELSE q \in pausas]_vars

\* two pauses of one operator started at different times; the end of a pause
\* closed the later one and the earlier one is open and untouched
C24_Testigo ==
  /\ resp.op = "fin"
  /\ resp.codigo = 201
  /\ \E p, q \in pausas :
       /\ p.id_operario = resp.id_operario /\ q.id_operario = resp.id_operario
       /\ p.hora_inicio_pausa < q.hora_inicio_pausa
       /\ ~p.finalizada /\ p.hora_fin_pausa = None /\ p.duracion_s = None
       /\ q.finalizada
       /\ q.id_pausa = resp.id

\* what the computation of row c subtracts from: the raw elapsed ticks minus
\* the ticks of the summed durations of the closed pauses it read
Calculado(c) ==
  (c.marca_tiempo - obs[c.id_registro].ultimo[1])
    - obs[c.id_registro].total_pausas_s * TicksPerSec

\* C25: with requests served one after another and a clock that does not go
\* back, the raw elapsed time minus the summed durations of the closed pauses
\* of the window is never negative: the guard's "< 0" never decides.
C25_NuncaNegativo ==
  \A c \in ciclos :
    obs[c.id_registro].ultimo # None => Calculado(c) >= 0

\* a cycle completed in the instant its pause of 5 s or more ended, less than
\* a second of elapsed time being left after the subtraction
C25_Testigo ==
  \E c \in ciclos :
    /\ obs[c.id_registro].ultimo # None
    /\ obs[c.id_registro].total_pausas_s >= 5
    /\ \E p \in PausasDe(c) :
         /\ p.id_pausa \in obs[c.id_registro].cerradas
         /\ p.hora_fin_pausa = Some(c.marca_tiempo)
    /\ Calculado(c) < TicksPerSec
    /\ c.tiempo_ciclo_s = Some(Calculado(c))

\* C26: a cycle or pause request answered with an error (400, 404 or 500)
\* leaves every cycle row and every pause row as it was: what the request
\* wrote before it failed is rolled back.
C26_ErrorSinCambios ==
  [][(/\ reloj' = reloj
      /\ resp'.op \in {"ciclo", "inicio", "fin"}
      /\ resp'.codigo \in {400, 404, 500})
     => (ciclos' = ciclos /\ pausas' = pausas)]_vars

\* the 500 of a cycle registration whose INSERT drew a value of the sequence
\* and persisted no row, beside earlier rows and an open pause
C26_Testigo ==
  /\ resp.op = "ciclo"
  /\ resp.codigo = 500
  /\ seqCiclo > Cardinality(ciclos)
  /\ \A c \in ciclos : c.id_registro < seqCiclo
  /\ ciclos # {}
  /\ \E p \in pausas : ~p.finalizada

\* the cycle rows and the pause rows of operator o
CiclosDe(C, o) == {c \in C : c.id_operario = o}
PausasDelOperario(P, o) == {p \in P : p.id_operario = o}

\* a request of operator a leaves the rows of every other operator alone
MarcoOperario ==
  \A a \in ConTarea :
    (reloj' = reloj /\ resp'.id_operario = a) =>
      \A b \in ConTarea \ {a} :
        /\ CiclosDe(ciclos', b) = CiclosDe(ciclos, b)
        /\ PausasDelOperario(pausas', b) = PausasDelOperario(pausas, b)

\* every row was computed from its own operator's rows and pauses alone
SoloLoPropio ==
  \A c \in ciclos :
    /\ obs[c.id_registro].ultimo =
         (IF Anteriores(c) = {} THEN None ELSE Some(MarcaAnterior(c)))
    /\ \A p \in pausas :
         p.id_pausa \in obs[c.id_registro].cerradas \cup obs[c.id_registro].abiertas
         => p.id_operario = c.id_operario
    /\ c.promedio_5_ciclos # None =>
         \E S \in SUBSET PreviosValidos(c) :
           /\ c.promedio_5_ciclos[1].n = 1 + Cardinality(S)
           /\ c.promedio_5_ciclos[1].suma = c.tiempo_ciclo_s[1] + SumaTiempos(S)
    /\ c.estado = Estado(c.promedio_5_ciclos, Tareas[c.id_operario])
    /\ (resp.op = "ciclo" /\ resp.codigo = 201 /\ resp.id = c.id_registro) =>
         resp.ciclos_completados_hoy
           = Cardinality({d \in Anteriores(c) \cup {c} :
                            d.fecha_registro = c.fecha_registro})

\* C27: a cycle registration or a pause start or end of one operator leaves
\* the cycle rows, the pause rows and so the pause status of every other
\* operator unchanged, and the duration, average, status and day count of a
\* cycle are computed from its own operator's rows and pauses alone.
C27_OperariosIndependientes ==
  [][MarcoOperario /\ SoloLoPropio']_vars

\* a cycle of one operator stored with its whole elapsed time while, strictly
\* inside its window, another operator registered a cycle and started a
\* pause of a second or more, since closed
C27_Testigo ==
  \E c \in ciclos :
    /\ Anteriores(c) # {}
    /\ c.tiempo_ciclo_s = Some(c.marca_tiempo - MarcaAnterior(c))
    /\ \E d \in ciclos :
         /\ d.id_operario # c.id_operario
         /\ MarcaAnterior(c) < d.marca_tiempo /\ d.marca_tiempo < c.marca_tiempo
    /\ \E p \in pausas :
         /\ p.id_operario # c.id_operario
         /\ p.finalizada
         /\ p.duracion_s[1] >= 1
         /\ EnVentana(p, MarcaAnterior(c), c.marca_tiempo)

\* C28 (as claimed): the ciclos_hoy of a metrics read is the number of cycle
\* rows the operator registered on the current day; read right after a
\* successful cycle registration, it is that response's
\* ciclos_completados_hoy.
C28_CiclosHoyIguales ==
  [][\A o \in Operarios :
       (Atiende("metricas", o) /\ resp'.codigo = 200) =>
         /\ resp'.ciclos_hoy =
              Cardinality({c \in CiclosDe(ciclos, o) : c.fecha_registro = Fecha(reloj)})
         /\ (/\ resp.op = "ciclo"
             /\ resp.codigo = 201
             /\ resp.id_operario = o
             /\ \E c \in ciclos : c.id_registro = resp.id /\ c.marca_tiempo = reloj)
            => resp'.ciclos_hoy = resp.ciclos_completados_hoy]_vars

\* C29: the rolling average of every cycle row, when present, lies within
\* [0, 300] seconds.
C29_PromedioAcotado ==
  \A c \in ciclos :
    c.promedio_5_ciclos # None =>
      /\ c.promedio_5_ciclos[1].n >= 1
      /\ 0 <= c.promedio_5_ciclos[1].suma
      /\ c.promedio_5_ciclos[1].suma <= TopeTicks * c.promedio_5_ciclos[1].n

\* an average of exactly 0 s, an average of exactly 300 s, and an average of
\* two values strictly between them
C29_Testigo ==
  /\ \E c \in ciclos :
       c.promedio_5_ciclos # None /\ c.promedio_5_ciclos[1].suma = 0
  /\ \E c \in ciclos :
       /\ c.promedio_5_ciclos # None
       /\ c.promedio_5_ciclos[1].suma = TopeTicks * c.promedio_5_ciclos[1].n
  /\ \E c \in ciclos :
       /\ c.promedio_5_ciclos # None
       /\ c.promedio_5_ciclos[1].n = 2
       /\ 0 < c.promedio_5_ciclos[1].suma
       /\ c.promedio_5_ciclos[1].suma < TopeTicks * 2

\* C30: a metrics read reports en_pausa exactly when the operator has an open
\* pause, reports tiempo_pausa_actual_s exactly when it reports en_pausa, and
\* changes no cycle row and no pause row, whatever its answer.
C30_MetricasEnPausa ==
  [][\A o \in Operarios \cup SinTarea :
       Atiende("metricas", o) =>
         /\ datos' = datos
         /\ resp'.codigo = 200 =>
              /\ resp'.en_pausa = EnPausa(pausas, o)
              /\ (resp'.tiempo_pausa_actual_s # None) <=> resp'.en_pausa]_vars

\* a metrics read 5.5 s into the operator's second pause: en_pausa with 5 s
\* of pause so far, the first pause being closed
C30_Testigo ==
  /\ resp.op = "metricas"
  /\ resp.codigo = 200
  /\ resp.en_pausa
  /\ resp.tiempo_pausa_actual_s = Some(5)
  /\ \E p, q \in pausas :
       /\ p.id_operario = resp.id_operario /\ q.id_operario = resp.id_operario
       /\ p.finalizada
       /\ ~q.finalizada
       /\ 2 * (reloj - q.hora_inicio_pausa) = 11 * TicksPerSec

====
